---- MODULE Spec2Model ----
(***************************************************************************)
(* gomplekity: complexity records -> classifier -> complexity tree ->      *)
(* colour ratio -> foliage (internal/tree) and tree rendering (svg.go).    *)
(*                                                                         *)
(* Numbers of type float64 are modelled as exact rationals <<num, den>>    *)
(* (den > 0, lowest terms).  Leaf anchors of a rendered tree are kept in   *)
(* polar form (radius, angle in degrees) around the branch tip, i.e.       *)
(* before the cos/sin step; the layout runs over large trees compute the   *)
(* Cartesian points, grid points exactly and points that need cos/sin in   *)
(* units of 1/10000 from a sine table of whole degrees.  A function's Name *)
(* is its arrival index in the analysis, FunctionName gives its text.      *)
(***************************************************************************)
EXTENDS Integers, Sequences, FiniteSets, TLC

VARIABLES thresholds, functions, tree, pc, classified, runs, layout

vars == <<thresholds, functions, tree, pc, classified, runs, layout>>

(* ------------------------------ bounds --------------------------------- *)
MaxFuncs == 3
MaxComplexity == 3
MaxRatioFuncs == 11
MaxQueries == 2
MaxLevelThreshold == 3
MaxLevelComplexity == 21
MaxRuns == 2
RandSteps == 2
MaxGroups == 50
MaxGroupFuncs == 50
MaxCluster == 60

(* --------------------------- program constants ------------------------- *)
DefaultMedium == 10
DefaultHigh == 15
DefaultCritical == 20
TotalLeaves == 700
FoliageLayers == 5
SmallClusterRadius == 15

Levels == <<"low", "medium", "high", "critical">>

LevelRank(l) == CHOOSE i \in 1..4 : Levels[i] = l

(* file identifiers: a path is the sequence of its segments, the empty     *)
(* sequence is the empty string                                            *)
Paths == {<<"a", "x.go">>, <<"b", "x.go">>, <<>>}

ThresholdSets == {<<1, 2, 3>>}

LevelThresholdSets ==
    {<<m, h, k>> : m \in 1..MaxLevelThreshold, h \in 1..MaxLevelThreshold,
                   k \in 1..MaxLevelThreshold}
    \cup {<<DefaultMedium, DefaultHigh, DefaultCritical>>}

Ascending(t) == t[1] < t[2] /\ t[2] < t[3]

(* ------------------------------ rationals ------------------------------ *)
RECURSIVE GCD(_, _)
GCD(a, b) == IF b = 0 THEN a ELSE GCD(b, a % b)

Abs(x) == IF x < 0 THEN -x ELSE x

Rat(n, d) ==
    LET g == GCD(Abs(n), d) IN
    IF n = 0 THEN <<0, 1>> ELSE <<n \div g, d \div g>>

(* sum over the least common denominator, which keeps the products small *)
RatAdd(a, b) ==
    LET g == GCD(a[2], b[2]) IN
    Rat(a[1] * (b[2] \div g) + b[1] * (a[2] \div g), (a[2] \div g) * b[2])
RatDiv(a, b) == Rat(a[1] * b[2], a[2] * b[1])
RatLess(a, b) == a[1] * b[2] < b[1] * a[2]
RatLeq(a, b) == a[1] * b[2] <= b[1] * a[2]

Tenth == <<1, 10>>
Zero == <<0, 1>>
One == <<1, 1>>

(* ------------------------------ classifier ----------------------------- *)
GetComplexityLevelOffByOne(t, complexity) ==
    IF complexity <= t[1] THEN "low"
    ELSE IF complexity <= t[2] THEN "medium"
    ELSE IF complexity <= t[3] THEN "high"
    ELSE "critical"

GetComplexityLevelSwapped(t, complexity) ==
    IF complexity < t[1] THEN "low"
    ELSE IF complexity < t[2] THEN "high"
    ELSE IF complexity < t[3] THEN "medium"
    ELSE "critical"

GetComplexityLevel(t, complexity) ==
    IF complexity < t[1] THEN "low"
    ELSE IF complexity < t[2] THEN "medium"
    ELSE IF complexity < t[3] THEN "high"
    ELSE "critical"

GetComplexityColorNoBrown(t, complexity) ==
    LET l == GetComplexityLevel(t, complexity) IN
    IF l = "low" THEN "green"
    ELSE IF l = "medium" THEN "yellow"
    ELSE IF l = "high" THEN "red"
    ELSE "gray"

GetComplexityColor(t, complexity) ==
    LET l == GetComplexityLevel(t, complexity) IN
    IF l = "low" THEN "green"
    ELSE IF l = "medium" THEN "yellow"
    ELSE IF l = "high" THEN "red"
    ELSE IF l = "critical" THEN "brown"
    ELSE "gray"

(* ------------------------------ tree builder --------------------------- *)
(* filepath.Base: last segment; "." for the empty path *)
BaseEmptyKept(path) == IF Len(path) = 0 THEN "" ELSE path[Len(path)]

Base(path) == IF Len(path) = 0 THEN "." ELSE path[Len(path)]

RECURSIVE SumComplexity(_)
SumComplexity(fns) ==
    IF Len(fns) = 0 THEN 0
    ELSE fns[1].Complexity + SumComplexity(Tail(fns))

IntOfMeanUndivided(total, count) == total

(* int(float64(total) / float64(count)): truncation toward zero *)
IntOfMean(total, count) ==
    IF total >= 0 THEN total \div count ELSE -((-total) \div count)

FileNames(fns) == {Base(fns[i].File) : i \in 1..Len(fns)}

FileFunctionsReversed(fns, fileName) ==
    LET own == SelectSeq(fns, LAMBDA fn : Base(fn.File) = fileName) IN
    [j \in 1..Len(own) |-> own[Len(own) + 1 - j]]

FileFunctions(fns, fileName) ==
    SelectSeq(fns, LAMBDA fn : Base(fn.File) = fileName)

(* the orders in which `range fileMap` may visit the keys *)
MapOrders(keys) ==
    {o \in [1..Cardinality(keys) -> keys] :
        \A i, j \in 1..Cardinality(keys) : i # j => o[i] # o[j]}

FunctionNodeLevelBelow(t, fn, fileName) ==
    [Name |-> fn.Name, NodeType |-> "function", Complexity |-> fn.Complexity,
     Level |-> GetComplexityLevel(t, fn.Complexity - 1),
     Color |-> GetComplexityColor(t, fn.Complexity - 1),
     Children |-> <<>>, Parent |-> fileName]

FunctionNode(t, fn, fileName) ==
    [Name |-> fn.Name, NodeType |-> "function", Complexity |-> fn.Complexity,
     Level |-> GetComplexityLevel(t, fn.Complexity),
     Color |-> GetComplexityColor(t, fn.Complexity),
     Children |-> <<>>, Parent |-> fileName]

FileNodeByTotal(t, fileName, fileFunctions) ==
    LET totalComplexity == SumComplexity(fileFunctions) IN
    [Name |-> fileName, NodeType |-> "file", Complexity |-> totalComplexity,
     Level |-> GetComplexityLevel(t, totalComplexity),
     Color |-> GetComplexityColor(t, totalComplexity),
     Children |-> [j \in 1..Len(fileFunctions) |->
                      FunctionNode(t, fileFunctions[j], fileName)],
     Parent |-> "Project Root"]

FileNodeAvgAsComplexity(t, fileName, fileFunctions) ==
    LET totalComplexity == SumComplexity(fileFunctions)
        avgComplexity == IntOfMean(totalComplexity, Len(fileFunctions)) IN
    [Name |-> fileName, NodeType |-> "file", Complexity |-> avgComplexity,
     Level |-> GetComplexityLevel(t, avgComplexity),
     Color |-> GetComplexityColor(t, avgComplexity),
     Children |-> [j \in 1..Len(fileFunctions) |->
                      FunctionNode(t, fileFunctions[j], fileName)],
     Parent |-> "Project Root"]

FileNode(t, fileName, fileFunctions) ==
    LET totalComplexity == SumComplexity(fileFunctions)
        avgComplexity == IntOfMean(totalComplexity, Len(fileFunctions)) IN
    [Name |-> fileName, NodeType |-> "file", Complexity |-> totalComplexity,
     Level |-> GetComplexityLevel(t, avgComplexity),
     Color |-> GetComplexityColor(t, avgComplexity),
     Children |-> [j \in 1..Len(fileFunctions) |->
                      FunctionNode(t, fileFunctions[j], fileName)],
     Parent |-> "Project Root"]

RootNode(children) ==
    [Name |-> "Project Root", NodeType |-> "root", Complexity |-> 0,
     Level |-> "low", Color |-> "green", Children |-> children,
     Parent |-> "none"]

(* the tree built when the map is visited in `order` *)
TreeOf(t, fns, order) ==
    RootNode([i \in 1..Len(order) |->
                 FileNode(t, order[i], FileFunctions(fns, order[i]))])

NoTree == [Name |-> "none"]

(* --------------------- colour ratio (main.go, tree.go) ----------------- *)
CountLevel(t, fns, l) ==
    Len(SelectSeq(fns, LAMBDA fn : GetComplexityLevel(t, fn.Complexity) = l))

(* "Ensure minimum representation for each level if functions exist" *)
VisibilityFloorNever(count, ratio) == ratio

VisibilityFloor(count, ratio) ==
    IF count > 0 /\ RatLess(ratio, Tenth) THEN Tenth ELSE ratio

(* green, yellow, red, brown as generateTreeVisualization passes them on *)
FlooredRatios(t, fns) ==
    LET totalFunctions == IF Len(fns) = 0 THEN 1 ELSE Len(fns) IN
    [i \in 1..4 |->
        VisibilityFloor(CountLevel(t, fns, Levels[i]),
                        Rat(CountLevel(t, fns, Levels[i]), totalFunctions))]

DefaultRatios == <<Rat(4, 10), Rat(3, 10), Rat(2, 10), Rat(1, 10)>>

RatSum4(r) == RatAdd(RatAdd(r[1], r[2]), RatAdd(r[3], r[4]))

(* tree.Generate: the ColorRatio handed to generateTreeSVG *)
GenerateNoNormalize(r) ==
    IF RatLeq(RatSum4(r), Zero) THEN DefaultRatios ELSE r

GenerateDefaultsAlways(r) == DefaultRatios

Generate(r) ==
    LET empty == RatLeq(RatSum4(r), Zero)
        total == IF empty THEN One ELSE RatSum4(r)
        v == IF empty THEN DefaultRatios ELSE r IN
    [i \in 1..4 |-> RatDiv(v[i], total)]

(* int(float64(totalLeaves) * ratio).  The product is exact in the model;  *)
(* in float64 a product whose exact value is a whole number k may come out *)
(* just below k, so both k and k-1 are possible outcomes there.            *)
LeafCounts(ratio) ==
    LET k == (TotalLeaves * ratio[1]) \div ratio[2] IN
    IF k > 0 /\ (TotalLeaves * ratio[1]) % ratio[2] = 0 THEN {k - 1, k}
    ELSE {k}

(* leaves of one colour written by addFoliage over its layers *)
DrawnLeaves(leaves) == FoliageLayers * (leaves \div FoliageLayers)

(* generateLeafInArea: the anchor of a leaf from two rand.Float64() draws, *)
(* quantised to RandSteps values: <<angle in degrees, radial draw>>; a     *)
(* radial draw of 0 puts the leaf on the centre whatever the angle         *)
LeafAnchor(u, v) ==
    IF v = 0 THEN <<0, 0>> ELSE <<(u * 360) \div RandSteps, v>>

(* ---------------------------- renderer (svg.go) ------------------------ *)
Width == 800
Height == 600

(* the silhouette drawNaturalLeaf / drawLeaf select for a level *)
LeafShape(level) ==
    IF level = "low" THEN "healthy"
    ELSE IF level = "medium" THEN "caution"
    ELSE IF level = "high" THEN "danger"
    ELSE "none"

RECURSIVE Concat(_)
Concat(seqs) == IF Len(seqs) = 0 THEN <<>> ELSE Head(seqs) \o Concat(Tail(seqs))

AllFunctionsFirstFile(root) == root.Children[1].Children

AllFunctions(root) ==
    Concat([i \in 1..Len(root.Children) |-> root.Children[i].Children])

(* identifier of the k-th function found, as its sequence of bytes *)
FunctionNames ==
    <<<<"m", "a", "i", "n">>,
      <<"g", "e", "n", "e", "r", "a", "t", "e", "T", "r", "e", "e", "V",
       "i", "s", "u", "a", "l", "i", "z", "a", "t", "i", "o", "n">>,
      <<"G", "e", "t", "C", "o", "m", "p", "l", "e", "x", "i", "t", "y", "L", "e", "v", "e", "l">>>>

FunctionName(k) == FunctionNames[((k - 1) % Len(FunctionNames)) + 1]

(* the text of a node's Name: the bytes of a function's identifier; the    *)
(* root name and the file names of the model are shorter than 16 bytes and *)
(* are kept as one unit                                                    *)
NameText(node) ==
    IF node.NodeType = "function" THEN FunctionName(node.Name)
    ELSE <<node.Name>>

(* drawNode: "Truncate long names" *)
displayName(name) ==
    IF Len(name) > 15 THEN SubSeq(name, 1, 12) \o <<".", ".", ".">>
    ELSE name

NaturalLeaf(node, radius, angle) ==
    [Name |-> node.Name, Level |-> node.Level, Shape |-> LeafShape(node.Level),
     Title |-> <<NameText(node), node.Complexity>>,
     Radius |-> radius, Angle |-> angle]

(* drawLeavesCluster: radius of leaf i (from 0) of functionCount leaves *)
ClusterRadius(functionCount, i) ==
    IF functionCount = 1 THEN 0
    ELSE IF functionCount <= 3 THEN SmallClusterRadius
    ELSE 8 + (i % 6) * 6

(* drawLeavesCluster: angle in degrees of leaf i (from 0) *)
ClusterAngle(functionCount, i) ==
    IF functionCount = 1 THEN Zero
    ELSE IF functionCount <= 3 THEN Rat(i * 120, 1)
    ELSE Rat(i * 360 + ((i % 5) - 2) * 10 * functionCount, functionCount)

(* drawLeavesCluster: leaf i (from 0) around the tip, polar form *)
drawLeavesCluster(fns) ==
    LET functionCount == Len(fns) IN
    [k \in 1..functionCount |->
        NaturalLeaf(fns[k], ClusterRadius(functionCount, k - 1),
                    ClusterAngle(functionCount, k - 1))]

(* drawNaturalTree: main trunk, then one cluster of all functions on its top *)
drawNaturalTree(root) ==
    [Style |-> "natural", Trunk |-> TRUE, Branches |-> 0,
     Tip |-> <<Rat(Width, 2), Height - 50 - 200>>,
     Nodes |-> <<>>, Connections |-> 0,
     Leaves |-> IF Len(root.Children) = 0 THEN <<>>
                ELSE drawLeavesCluster(AllFunctions(root))]

(* drawLeavesOnBranch (branching natural style): leaf j (from 1) of the    *)
(* functionCount leaves of branch i (from 0), at the fraction t of the     *)
(* branch                                                                  *)
BranchLeaf(node, i, j, functionCount) ==
    [Name |-> node.Name, Level |-> node.Level, Shape |-> LeafShape(node.Level),
     Title |-> <<NameText(node), node.Complexity>>,
     Branch |-> i, T |-> Rat(j, functionCount + 1)]

(* drawNaturalTree of the branching natural style: trunk, one branch per  *)
(* child of the root, the functions of a child as leaves along its branch  *)
drawBranchedNaturalTree(root) ==
    [Style |-> "branching", Trunk |-> TRUE, Branches |-> Len(root.Children),
     Tip |-> <<Rat(Width, 2), Height - 50 - 200>>,
     Nodes |-> <<>>, Connections |-> 0,
     Leaves |-> Concat([i \in 1..Len(root.Children) |->
         [j \in 1..Len(root.Children[i].Children) |->
             BranchLeaf(root.Children[i].Children[j], i - 1, j,
                        Len(root.Children[i].Children))]])]

(* drawNode: the shape drawn for a node of the grid layout *)
NodeShape(node) ==
    IF node.NodeType = "root" THEN "trunk"
    ELSE IF node.NodeType = "package" THEN "branch"
    ELSE IF node.NodeType = "function" THEN LeafShape(node.Level)
    ELSE "none"

GridNode(node, x, y) ==
    [Name |-> node.Name, NodeType |-> node.NodeType, Level |-> node.Level,
     Shape |-> NodeShape(node), X |-> x, Y |-> y,
     Label |-> IF node.NodeType = "root" THEN <<displayName(NameText(node))>>
               ELSE <<displayName(NameText(node)), node.Complexity>>]

RatSub(a, b) == RatAdd(a, <<-b[1], b[2]>>)
RatMul(a, b) == Rat(a[1] * b[1], a[2] * b[2])
RatMin(a, b) == IF RatLess(a, b) THEN a ELSE b

packageSpacingTruncated(packageCount) ==
    <<(Width - 100) \div packageCount, 1>>

packageSpacing(packageCount) == Rat(Width - 100, packageCount)

packageX(i, packageCount) ==
    RatAdd(RatAdd(<<50, 1>>, RatMul(<<i, 1>>, packageSpacing(packageCount))),
           RatDiv(packageSpacing(packageCount), <<2, 1>>))

functionSpacingFixed(packageCount, functionCount) == <<80, 1>>

functionSpacingPerGap(packageCount, functionCount) ==
    IF functionCount <= 1 THEN <<80, 1>>
    ELSE RatMin(RatDiv(packageSpacing(packageCount),
                       <<functionCount - 1, 1>>), <<80, 1>>)

functionSpacing(packageCount, functionCount) ==
    RatMin(RatDiv(packageSpacing(packageCount), <<functionCount, 1>>), <<80, 1>>)

startX(i, packageCount, functionCount) ==
    RatSub(packageX(i, packageCount),
           RatDiv(RatMul(<<functionCount - 1, 1>>,
                         functionSpacing(packageCount, functionCount)),
                  <<2, 1>>))

functionX(i, packageCount, j, functionCount) ==
    RatAdd(startX(i, packageCount, functionCount),
           RatMul(<<j, 1>>, functionSpacing(packageCount, functionCount)))

(* drawTree: root, file and function bands with their connections *)
drawTree(root) ==
    LET packageCount == Len(root.Children)
        fileNodes == [i \in 1..packageCount |->
            GridNode(root.Children[i], packageX(i - 1, packageCount), 80 + 120)]
        functionNodes == Concat([i \in 1..packageCount |->
            [j \in 1..Len(root.Children[i].Children) |->
                GridNode(root.Children[i].Children[j],
                    functionX(i - 1, packageCount, j - 1,
                              Len(root.Children[i].Children)),
                    80 + 120 + 100)]])
    IN
    [Style |-> "hierarchical", Trunk |-> TRUE, Branches |-> 0,
     Tip |-> <<Rat(Width, 2), 80>>,
     Nodes |-> <<GridNode(root, Rat(Width, 2), 80)>> \o fileNodes,
     Connections |-> packageCount + Len(functionNodes),
     Leaves |-> functionNodes]

GenerateSVG(style, root) ==
    IF style = "natural" THEN drawNaturalTree(root) ELSE drawTree(root)

(* a node after drawNode / drawNaturalLeaf has drawn it: both read Name,   *)
(* Level and Complexity; drawNode cuts a copy of the name (displayName),   *)
(* not the node's own field (the mutant cuts the field, 0 standing for the *)
(* cut name)                                                               *)
NodeAfterDrawTruncated(node) ==
    [node EXCEPT !.Name = IF Len(NameText(node)) > 15 THEN 0 ELSE @]

NodeAfterDraw(node) == node

(* the tree after GenerateSVG: the renderers pass over Root.Children and   *)
(* over each child's Children; drawHierarchicalTree appends the Children   *)
(* to a list of its own that starts nil                                    *)
TreeAfterGenerateSVG(root) ==
    [root EXCEPT !.Children =
        [i \in 1..Len(root.Children) |->
            [root.Children[i] EXCEPT !.Children =
                [j \in 1..Len(root.Children[i].Children) |->
                    NodeAfterDraw(root.Children[i].Children[j])]]]]

Styles == {"natural", "hierarchical"}

(* ------------------- coordinates of the layouts (svg.go) --------------- *)
(* math.Sin of a whole number of degrees 0..90, in units of 1/10000 *)
SinTable ==
    <<
      0, 175, 349, 523, 698, 872, 1045, 1219, 1392, 1564, 1736, 1908,
      2079, 2250, 2419, 2588, 2756, 2924, 3090, 3256, 3420, 3584, 3746,
      3907, 4067, 4226, 4384, 4540, 4695, 4848, 5000, 5150, 5299, 5446,
      5592, 5736, 5878, 6018, 6157, 6293, 6428, 6561, 6691, 6820, 6947,
      7071, 7193, 7314, 7431, 7547, 7660, 7771, 7880, 7986, 8090, 8192,
      8290, 8387, 8480, 8572, 8660, 8746, 8829, 8910, 8988, 9063, 9135,
      9205, 9272, 9336, 9397, 9455, 9511, 9563, 9613, 9659, 9703, 9744,
      9781, 9816, 9848, 9877, 9903, 9925, 9945, 9962, 9976, 9986, 9994,
      9998, 10000
    >>

SinE4(deg) ==
    LET d == deg % 360 IN
    IF d <= 90 THEN SinTable[d + 1]
    ELSE IF d <= 180 THEN SinTable[180 - d + 1]
    ELSE IF d <= 270 THEN -SinTable[d - 180 + 1]
    ELSE -SinTable[360 - d + 1]

CosE4(deg) == SinE4(deg + 90)

(* an angle in degrees cut to whole degrees (floor) for the table *)
WholeDegrees(angle) == angle[1] \div angle[2]

(* <<x + radius*cos(angleRad), y + radius*sin(angleRad)>>, every length in *)
(* units of 1/10000                                                        *)
PolarPoint(x, y, radius, deg) ==
    <<x + radius * CosE4(deg), y + radius * SinE4(deg)>>

(* a point given in units of 1/10000 as a pair of fractions (not reduced) *)
E4(p) == <<<<p[1], 10000>>, <<p[2], 10000>>>>

NoLayout == [Style |-> "none"]

(* drawLeavesCluster: <<radius, angle>> of every leaf of a cluster *)
ClusterPositions(functionCount) ==
    [k \in 1..functionCount |->
        <<ClusterRadius(functionCount, k - 1),
          ClusterAngle(functionCount, k - 1)>>]

(* drawNaturalTree -> drawHierarchicalTree -> drawLeavesCluster: the leaves *)
(* of group i (from 0) in the single cluster on the trunk top, for a tree   *)
(* of packageCount groups of functionCount functions each                   *)
NaturalGroup(packageCount, i, functionCount) ==
    [Endpoints |-> <<>>, Angles |-> <<>>,
     Anchors |-> [j \in 1..functionCount |->
        E4(PolarPoint((Width * 10000) \div 2, (Height - 50 - 200) * 10000,
              ClusterRadius(packageCount * functionCount,
                            i * functionCount + j - 1),
              WholeDegrees(ClusterAngle(packageCount * functionCount,
                                        i * functionCount + j - 1))))]]

(* drawTree, loop body for a group whose file node is at x and whose      *)
(* function nodes are at xs: the two ends of every connection drawn, and   *)
(* the centres of the file node and of the function nodes                  *)
GridRow(x, xs) ==
    [Angles |-> <<>>,
     Endpoints |->
        <<<<Rat(Width, 2), <<80 + 30, 1>>>>, <<x, <<80 + 120 - 30, 1>>>>>>
        \o [k \in 1..(2 * Len(xs)) |->
              IF k % 2 = 1 THEN <<x, <<80 + 120 + 30, 1>>>>
              ELSE <<xs[k \div 2], <<80 + 120 + 100 - 20, 1>>>>],
     Anchors |->
        <<<<x, <<80 + 120, 1>>>>>>
        \o [j \in 1..Len(xs) |-> <<xs[j], <<80 + 120 + 100, 1>>>>]]

FunctionXs(sx, fs, functionCount) ==
    [j \in 1..functionCount |-> RatAdd(sx, RatMul(<<j - 1, 1>>, fs))]

GridGroup(packageCount, i, functionCount) ==
    GridRow(packageX(i, packageCount),
            FunctionXs(startX(i, packageCount, functionCount),
                       functionSpacing(packageCount, functionCount),
                       functionCount))

(* calculateBranchPositions (branching natural style): branch i (from 0);  *)
(* coordinates in units of 1/10000, fractions beyond that dropped          *)
calculateBranchPositions(packageCount, i, functionCount) ==
    LET trunkX == (Width * 10000) \div 2
        branchHeight == (Height - 50) * 10000
                        - (200 * 10000 * (i + 1)) \div (packageCount + 1)
        angle == IF i % 2 = 0 THEN 160 - (i \div 2) * 6
                 ELSE 20 + (i \div 2) * 6
        baseBranchLength == 60 + functionCount * 8
        varied == IF i % 2 = 0 THEN baseBranchLength + (i % 3) * 10
                  ELSE baseBranchLength + ((i + 1) % 3) * 10
        branchLength == IF varied > 120 THEN 120 ELSE varied IN
    [StartX |-> trunkX, StartY |-> branchHeight,
     EndX |-> trunkX + branchLength * CosE4(angle),
     EndY |-> branchHeight - branchLength * SinE4(angle),
     Angle |-> angle]

(* drawLeavesOnBranch: anchor of leaf j (from 0) along the branch, in      *)
(* units of 1/10000                                                        *)
drawLeavesOnBranch(branch, j, functionCount) ==
    <<branch.StartX
        + ((branch.EndX - branch.StartX) * (j + 1)) \div (functionCount + 1)
        + ((j % 3) - 1) * 15 * 10000,
      branch.StartY
        + ((branch.EndY - branch.StartY) * (j + 1)) \div (functionCount + 1)
        + (j % 2) * 10 * 10000>>

(* drawNaturalBranch: the branch line, then the leaves along it *)
drawNaturalBranch(branch, functionCount) ==
    [Endpoints |-> <<E4(<<branch.StartX, branch.StartY>>),
                     E4(<<branch.EndX, branch.EndY>>)>>,
     Angles |-> <<branch.Angle>>,
     Anchors |-> [j \in 1..functionCount |->
                    E4(drawLeavesOnBranch(branch, j - 1, functionCount))]]

BranchGroup(packageCount, i, functionCount) ==
    drawNaturalBranch(
        calculateBranchPositions(packageCount, i, functionCount),
        functionCount)

(* createPackageBranch: the branch of a package of functionCount functions *)
(* from (fromX, fromY) at `angle` degrees, in units of 1/10000           *)
createPackageBranch(fromX, fromY, angle, functionCount) ==
    LET baseLength == IF 80 + functionCount * 8 > 120 THEN 120
                      ELSE 80 + functionCount * 8 IN
    [StartX |-> fromX, StartY |-> fromY,
     EndX |-> fromX + baseLength * CosE4(angle),
     EndY |-> fromY - baseLength * SinE4(angle),
     Angle |-> angle]

(* createSubdirectoryBranches: branch i (from 0) of packageCount; no node  *)
(* of a built tree is a "package" named main, so none is filtered out      *)
createSubdirectoryBranches(packageCount, i, functionCount) ==
    createPackageBranch(
        (Width * 10000) \div 2,
        (Height - 50 - 200) * 10000
            + (60 * 10000 * (packageCount - i)) \div packageCount,
        IF i % 2 = 0 THEN 135 + (i \div 2) * 5 ELSE 45 - (i \div 2) * 5,
        functionCount)

(* the BranchInfo list of createSubdirectoryBranches, one entry per group *)
SubdirectoryGroup(branch) ==
    [Endpoints |-> <<E4(<<branch.StartX, branch.StartY>>),
                     E4(<<branch.EndX, branch.EndY>>)>>,
     Angles |-> <<branch.Angle>>,
     Anchors |-> <<>>]

(* drawTree: rootX, rootY, the centre of the root node *)
GridRoot == <<Rat(Width, 2), <<80, 1>>>>

(* drawNaturalTree: rootX, rootY, the foot of the trunk *)
TrunkFoot == <<Rat(Width, 2), <<Height - 50, 1>>>>

(* where the drawing of a style starts *)
RootPoint(style) == IF style = "hierarchical" THEN GridRoot ELSE TrunkFoot

LayoutStyles == {"natural", "hierarchical", "branching", "subdirectory"}

DrawnGroup(style, packageCount, i, functionCount) ==
    IF style = "natural" THEN NaturalGroup(packageCount, i, functionCount)
    ELSE IF style = "hierarchical"
         THEN GridGroup(packageCount, i, functionCount)
    ELSE IF style = "branching"
         THEN BranchGroup(packageCount, i, functionCount)
    ELSE SubdirectoryGroup(
             createSubdirectoryBranches(packageCount, i, functionCount))

(* ------------------------------- actions ------------------------------- *)
Init ==
    /\ thresholds \in ThresholdSets
    /\ functions = <<>>
    /\ tree = NoTree
    /\ pc = "analyze"
    /\ classified = <<>>
    /\ runs = <<>>
    /\ layout = NoLayout

(* analyzeFile appends one record per function found *)
AnalyzeFile ==
    /\ pc = "analyze"
    /\ Len(functions) < MaxFuncs
    /\ \E file \in Paths, complexity \in 0..MaxComplexity :
          functions' = Append(functions,
              [Name |-> Len(functions) + 1, File |-> file,
               Complexity |-> complexity])
    /\ UNCHANGED <<thresholds, tree, pc, classified, runs, layout>>

(* AnalyzeDirectory when analyzeFile fails on the next file: the walk      *)
(* stops and the records appended so far are returned with the error; main *)
(* prints the error and returns                                            *)
AnalyzeDirectoryFails ==
    /\ pc = "analyze"
    /\ pc' = "failed"
    /\ UNCHANGED <<thresholds, functions, tree, classified, runs, layout>>

(* AnalyzeTopDirectoryOnly when analyzeFile fails on the next file: nil is *)
(* returned with the error                                                 *)
AnalyzeTopDirectoryOnlyFails ==
    /\ pc = "analyze"
    /\ functions' = <<>>
    /\ pc' = "failed_top"
    /\ UNCHANGED <<thresholds, tree, classified, runs, layout>>

(* a build of the analyzed list; it may be repeated on the same list *)
BuildComplexityTree ==
    /\ pc \in {"analyze", "built"}
    /\ \E order \in MapOrders(FileNames(functions)) :
          tree' = TreeOf(thresholds, functions, order)
    /\ pc' = "built"
    /\ UNCHANGED <<thresholds, functions, classified, runs, layout>>

(* one GetComplexityLevel / GetComplexityColor call *)
InitLevel ==
    /\ thresholds \in LevelThresholdSets
    /\ functions = <<>>
    /\ tree = NoTree
    /\ pc = "classify"
    /\ classified = <<>>
    /\ runs = <<>>
    /\ layout = NoLayout

Classify ==
    /\ pc = "classify"
    /\ Len(classified) < MaxQueries
    /\ \E complexity \in 0..MaxLevelComplexity :
          classified' = Append(classified,
              [complexity |-> complexity,
               level |-> GetComplexityLevel(thresholds, complexity),
               color |-> GetComplexityColor(thresholds, complexity)])
    /\ UNCHANGED <<thresholds, functions, tree, pc, runs, layout>>

(* generateTreeVisualization: counts, ratios, tree.Generate, addFoliage.  *)
(* A repeated run on the same input is explored for lists of up to         *)
(* MaxFuncs functions.                                                     *)
GenerateTreeVisualization ==
    /\ pc \in {"analyze", "visualized"}
    /\ Len(runs) < MaxRuns
    /\ (Len(runs) > 0 => Len(functions) <= MaxFuncs)
    /\ \E ratios \in {FlooredRatios(thresholds, functions)} :
       \E colorRatio \in {Generate(ratios)} :
       \E g \in LeafCounts(colorRatio[1]), y \in LeafCounts(colorRatio[2]),
          r \in LeafCounts(colorRatio[3]), b \in LeafCounts(colorRatio[4]) :
       \E drawn \in {<<DrawnLeaves(g), DrawnLeaves(y), DrawnLeaves(r),
                       DrawnLeaves(b)>>} :
       \E u \in 0..(RandSteps - 1), v \in 0..(RandSteps - 1) :
          \* float64 arithmetic is deterministic: same ratio, same counts
          /\ (Len(runs) > 0 => drawn = runs[1].Foliage)
          /\ runs' = Append(runs,
              [Style |-> "foliage", Trunk |-> TRUE, Branches |-> 0,
               Ratios |-> ratios, ColorRatio |-> colorRatio,
               Foliage |-> drawn,
               FirstLeaf |-> IF drawn[1] + drawn[2] + drawn[3] + drawn[4] = 0
                             THEN <<>> ELSE <<LeafAnchor(u, v)>>])
    /\ pc' = "visualized"
    /\ UNCHANGED <<thresholds, functions, tree, classified, layout>>

(* SVGGenerator.GenerateSVG on the built tree in one of the two styles *)
RenderSVG ==
    /\ pc = "built"
    /\ \E style \in Styles :
          runs' = Append(runs, GenerateSVG(style, tree))
    /\ tree' = TreeAfterGenerateSVG(tree)
    /\ pc' = "rendered"
    /\ UNCHANGED <<thresholds, functions, classified, layout>>

(* GenerateSVG of the branching natural style on the built tree *)
RenderBranchedSVG ==
    /\ pc = "built"
    /\ runs' = Append(runs, drawBranchedNaturalTree(tree))
    /\ tree' = TreeAfterGenerateSVG(tree)
    /\ pc' = "rendered"
    /\ UNCHANGED <<thresholds, functions, classified, layout>>

(* counting run: records arrive ordered by complexity, one file *)
AnalyzeFileSorted ==
    /\ pc = "analyze"
    /\ Len(functions) < MaxRatioFuncs
    /\ \E complexity \in 0..MaxComplexity :
          /\ (Len(functions) > 0 =>
                 functions[Len(functions)].Complexity <= complexity)
          /\ functions' = Append(functions,
                 [Name |-> Len(functions) + 1, File |-> <<"y.go">>,
                  Complexity |-> complexity])
    /\ UNCHANGED <<thresholds, tree, pc, classified, runs, layout>>

(* a rendering starts: trunk or root drawn, the tree has Groups file nodes *)
(* of Functions functions each, no group drawn yet                         *)
StartLayout ==
    /\ pc = "analyze"
    /\ layout = NoLayout
    /\ \E style \in LayoutStyles, packageCount \in 0..MaxGroups,
          functionCount \in 0..MaxGroupFuncs :
          layout' = [Style |-> style, Groups |-> packageCount,
                     Functions |-> functionCount, Index |-> -1,
                     Origin |-> RootPoint(style),
                     Endpoints |-> <<>>, Anchors |-> <<>>,
                     Angles |-> <<>>]
    /\ UNCHANGED <<thresholds, functions, tree, pc, classified, runs>>

(* the next iteration of the loop over Root.Children *)
DrawGroup ==
    /\ layout.Style \in LayoutStyles
    /\ layout.Index + 1 < layout.Groups
    /\ \E g \in {DrawnGroup(layout.Style, layout.Groups, layout.Index + 1,
                             layout.Functions)} :
          layout' = [layout EXCEPT !.Index = layout.Index + 1,
                                   !.Endpoints = g.Endpoints,
                                   !.Anchors = g.Anchors,
                                   !.Angles = layout.Angles \o g.Angles]
    /\ UNCHANGED <<thresholds, functions, tree, pc, classified, runs>>

(* one drawLeavesCluster call on a branch tip with functionCount leaves *)
DrawCluster ==
    /\ pc = "analyze"
    /\ layout = NoLayout
    /\ \E functionCount \in 0..MaxCluster :
          layout' = [Style |-> "cluster", Functions |-> functionCount,
                     Leaves |-> ClusterPositions(functionCount)]
    /\ UNCHANGED <<thresholds, functions, tree, pc, classified, runs>>

Next == AnalyzeFile \/ BuildComplexityTree

Spec == Init /\ [][Next]_vars

NextRender ==
    \/ AnalyzeFile
    \/ AnalyzeDirectoryFails
    \/ AnalyzeTopDirectoryOnlyFails
    \/ BuildComplexityTree
    \/ RenderSVG
    \/ RenderBranchedSVG

SpecRender == Init /\ [][NextRender]_vars

NextLevel == Classify

SpecLevel == InitLevel /\ [][NextLevel]_vars

NextRatio == AnalyzeFileSorted \/ GenerateTreeVisualization

SpecRatio == Init /\ [][NextRatio]_vars

NextLayout == StartLayout \/ DrawGroup \/ DrawCluster

SpecLayout == Init /\ [][NextLayout]_vars

(* ================================ claims =============================== *)
InRange(c, lo, hi) == lo <= c /\ c <= hi

BucketRule(t, c, l) ==
    /\ (l = "low") <=> (c < t[1])
    /\ (l = "medium") <=> (t[1] <= c /\ c < t[2])
    /\ (l = "high") <=> (t[2] <= c /\ c < t[3])
    /\ (l = "critical") <=> (c >= t[3])

DefaultColorRule(c, color) ==
    /\ (color = "green") <=> InRange(c, 0, 9)
    /\ (color = "yellow") <=> InRange(c, 10, 14)
    /\ (color = "red") <=> InRange(c, 15, 19)
    /\ (color = "brown") <=> (c >= 20)

(* C1: with ascending thresholds the level is low iff c < medium, medium   *)
(* iff medium <= c < high, high iff high <= c < critical, critical iff     *)
(* c >= critical; a complexity equal to a threshold falls in the bucket    *)
(* that starts there; defaults give 0-9 green, 10-14 yellow, 15-19 red,    *)
(* 20+ brown.                                                              *)
C1_ThresholdBuckets ==
    Ascending(thresholds) =>
        \A i \in 1..Len(classified) :
            /\ BucketRule(thresholds, classified[i].complexity,
                          classified[i].level)
            /\ (thresholds = <<10, 15, 20>> =>
                   DefaultColorRule(classified[i].complexity,
                                    classified[i].color))

C1_Witness ==
    /\ thresholds = <<10, 15, 20>>
    /\ \E i \in 1..Len(classified) :
          /\ classified[i].complexity = 15
          /\ classified[i].level = "high"
          /\ classified[i].color = "red"

(* C2: for ascending thresholds every classification returns one of the   *)
(* four levels, equal inputs get equal levels, and the level never         *)
(* decreases when the complexity increases.                                *)
C2_TotalDeterministicMonotone ==
    Ascending(thresholds) =>
        \A i, j \in 1..Len(classified) :
            /\ classified[i].level \in {"low", "medium", "high", "critical"}
            /\ (classified[i].complexity = classified[j].complexity =>
                   classified[i].level = classified[j].level)
            /\ (classified[i].complexity <= classified[j].complexity =>
                   LevelRank(classified[i].level) <=
                       LevelRank(classified[j].level))

C2_Witness ==
    /\ Ascending(thresholds)
    /\ Len(classified) = 2
    /\ classified[1].complexity < classified[2].complexity
    /\ classified[1].level = "medium"
    /\ classified[2].level = "high"

RECURSIVE ChildCountSum(_)
ChildCountSum(nodes) ==
    IF Len(nodes) = 0 THEN 0
    ELSE Len(nodes[1].Children) + ChildCountSum(Tail(nodes))

RECURSIVE NodeComplexitySum(_)
NodeComplexitySum(nodes) ==
    IF Len(nodes) = 0 THEN 0
    ELSE nodes[1].Complexity + NodeComplexitySum(Tail(nodes))

DistinctFiles(fns) == {fns[i].File : i \in 1..Len(fns)}

Built == tree # NoTree

(* C3: an empty record list gives a Root without children; N records over *)
(* K distinct File identifiers give exactly K FileGroup children whose     *)
(* Function-child counts sum to N.                                         *)
C3_OneGroupPerFile ==
    Built =>
        /\ (Len(functions) = 0 => Len(tree.Children) = 0)
        /\ Len(tree.Children) = Cardinality(DistinctFiles(functions))
        /\ ChildCountSum(tree.Children) = Len(functions)

(* C4: the Complexity of every FileGroup node equals the sum of the       *)
(* Complexity values of its Function children.                             *)
C4_FileComplexityIsSum ==
    Built =>
        \A i \in 1..Len(tree.Children) :
            tree.Children[i].Complexity =
                NodeComplexitySum(tree.Children[i].Children)

C4_Witness ==
    /\ Built
    /\ \E i \in 1..Len(tree.Children) :
          /\ Len(tree.Children[i].Children) >= 2
          /\ tree.Children[i].Complexity = 5
          /\ tree.Children[i].Children[1].Complexity = 2
          /\ tree.Children[i].Children[2].Complexity = 3

(* the integer q with q <= total/count < q + 1 (total >= 0) *)
TruncatedMean(total, count) ==
    CHOOSE q \in 0..total : q * count <= total /\ total < (q + 1) * count

(* C5: every FileGroup's Level and Color are the classifier's level and   *)
(* color of the mean of its children's complexities truncated toward zero  *)
(* (not of the total, not of the rounded mean).                            *)
C5_FileLevelFromTruncatedMean ==
    Built =>
        \A i \in 1..Len(tree.Children) :
            LET node == tree.Children[i]
                mean == TruncatedMean(NodeComplexitySum(node.Children),
                                      Len(node.Children)) IN
            /\ node.Level = GetComplexityLevel(thresholds, mean)
            /\ node.Color = GetComplexityColor(thresholds, mean)

C5_Witness ==
    /\ Built
    /\ thresholds = <<1, 2, 3>>
    /\ \E i \in 1..Len(tree.Children) :
          /\ Len(tree.Children[i].Children) = 2
          /\ tree.Children[i].Children[1].Complexity = 1
          /\ tree.Children[i].Children[2].Complexity = 2
          /\ tree.Children[i].Level = "medium"
          /\ tree.Children[i].Color = "yellow"

FunctionsAt(l) ==
    Cardinality({k \in 1..Len(functions) :
        GetComplexityLevel(thresholds, functions[k].Complexity) = l})

C8_EmptyProjectBareTrunk ==
    Len(functions) = 0 =>
        \A n \in 1..Len(runs) :
            runs[n].Style = "foliage" =>
                /\ \A i \in 1..4 : runs[n].Ratios[i][1] = 0
                /\ runs[n].Trunk
                /\ runs[n].Branches = 0
                /\ runs[n].Foliage = <<0, 0, 0, 0>>

ExpectedShape(level) ==
    IF level = "low" THEN "healthy"
    ELSE IF level = "medium" THEN "caution"
    ELSE "danger"

(* C9: every Function leaf is drawn with the healthy shape for low, the   *)
(* caution shape for medium and the withered shape for high and critical;  *)
(* no leaf is drawn without a silhouette.                                  *)
C9_EveryLeafHasSilhouette ==
    \A n \in 1..Len(runs) :
        runs[n].Style \in Styles =>
            \A k \in 1..Len(runs[n].Leaves) :
                /\ runs[n].Leaves[k].Shape # "none"
                /\ runs[n].Leaves[k].Shape =
                       ExpectedShape(runs[n].Leaves[k].Level)

(* C10: two renderings of the same input give identical branch endpoints  *)
(* and identical leaf anchor points.                                       *)
C10_SameGeometryTwice ==
    Len(runs) >= 2 =>
        /\ runs[1].Branches = runs[2].Branches
        /\ runs[1].FirstLeaf = runs[2].FirstLeaf

(* a point <<x, y>> of fractions <<num, den>>, den > 0 *)
InCanvas(p) ==
    /\ RatLeq(Zero, p[1]) /\ RatLeq(p[1], <<Width, 1>>)
    /\ RatLeq(Zero, p[2]) /\ RatLeq(p[2], <<Height, 1>>)

(* C11: on the 800x600 canvas, for trees of up to 50 FileGroups of up to  *)
(* 50 Functions each, every branch endpoint and every leaf anchor point of *)
(* either layout style lies inside the canvas.                             *)
C11_InsideCanvas ==
    layout.Style \in LayoutStyles =>
        /\ \A k \in 1..Len(layout.Endpoints) : InCanvas(layout.Endpoints[k])
        /\ \A k \in 1..Len(layout.Anchors) : InCanvas(layout.Anchors[k])

C11_Witness ==
    /\ layout.Style = "hierarchical"
    /\ layout.Groups = 50
    /\ layout.Functions = 50
    /\ layout.Index = 49
    /\ Len(layout.Anchors) = 51
    /\ InCanvas(layout.Anchors[51])

(* the name and complexity text the output attaches to a drawn leaf *)
Attached(run, leaf) ==
    IF run.Style = "natural" THEN leaf.Title ELSE leaf.Label

(* C12: for every Function node rendered, in either layout style, the     *)
(* output attaches to the leaf the originating function's full name and    *)
(* its numeric complexity.                                                 *)
C12_LeafCarriesNameAndComplexity ==
    \A n \in 1..Len(runs) :
        runs[n].Style \in Styles =>
            \A k \in 1..Len(runs[n].Leaves) :
                LET leaf == runs[n].Leaves[k] IN
                /\ Attached(runs[n], leaf)[1] = FunctionName(leaf.Name)
                /\ Attached(runs[n], leaf)[2] = functions[leaf.Name].Complexity

(* the group name under which records without a file identifier are put *)
SentinelName == "."

WithFile(fns) == SelectSeq(fns, LAMBDA fn : fn.File # <<>>)

WithoutFile(fns) == SelectSeq(fns, LAMBDA fn : fn.File = <<>>)

(* C13: a record whose File identifier is empty does not abort the build: *)
(* it is placed under the FileGroup with the fixed sentinel name, and      *)
(* every other record is grouped exactly as it would be without it.        *)
C13_EmptyFileUnderSentinel ==
    Built =>
        /\ tree.NodeType = "root"
        /\ (Len(WithoutFile(functions)) > 0 =>
               \E i \in 1..Len(tree.Children) :
                  /\ tree.Children[i].Name = SentinelName
                  /\ tree.Children[i].NodeType = "file"
                  /\ Len(tree.Children[i].Children) =
                         Len(WithoutFile(functions))
                  /\ \A j \in 1..Len(tree.Children[i].Children) :
                         tree.Children[i].Children[j].Name =
                             WithoutFile(functions)[j].Name)
        /\ {tree.Children[i].Name : i \in 1..Len(tree.Children)}
               \ {SentinelName} = FileNames(WithFile(functions))
        /\ \A i \in 1..Len(tree.Children) :
               tree.Children[i].Name # SentinelName =>
                   tree.Children[i] =
                       FileNode(thresholds, tree.Children[i].Name,
                                FileFunctions(WithFile(functions),
                                              tree.Children[i].Name))

C13_Witness ==
    /\ Built
    /\ Len(WithoutFile(functions)) = 1
    /\ Len(WithFile(functions)) = 2
    /\ Len(tree.Children) = 2
    /\ \E i \in 1..2 : /\ tree.Children[i].Name = SentinelName
                         /\ Len(tree.Children[i].Children) = 1
                         /\ Len(tree.Children[3 - i].Children) = 2

(* C14: thresholds that are not strictly ascending are rejected at        *)
(* startup: with them no file is analyzed, no output is written and no     *)
(* function is ever classified.                                            *)
C14_NonAscendingRejected ==
    ~Ascending(thresholds) =>
        /\ Len(functions) = 0
        /\ Len(runs) = 0
        /\ Len(classified) = 0

(* C15: two builds from the same record list yield the same tree,         *)
(* including the same order of the FileGroup children under Root.          *)
C15_BuildDeterministic ==
    [][(Built /\ tree' # NoTree /\ functions' = functions) => tree' = tree]_vars

(* an angle in degrees reduced to [0, 360) *)
AngleMod360(a) == Rat(a[1] % (360 * a[2]), a[2])

(* C16: in every cluster of more than 3 leaves no two leaves get the same *)
(* position: for leaf indices i # j the pairs (ring radius, angle modulo   *)
(* 360 degrees) differ.                                                    *)
C16_ClusterLeavesDistinct ==
    (layout.Style = "cluster" /\ layout.Functions > 3) =>
        \A i, j \in 1..Len(layout.Leaves) :
            i # j =>
                <<layout.Leaves[i][1], AngleMod360(layout.Leaves[i][2])>>
                    # <<layout.Leaves[j][1], AngleMod360(layout.Leaves[j][2])>>

(* C17: whenever at least one function is analyzed, every level with a    *)
(* non-zero function count gets at least one leaf of its colour in the     *)
(* foliage and every level with a zero count gets none.                    *)
C17_FoliageShowsExactlyPresentLevels ==
    Len(functions) >= 1 =>
        \A n \in 1..Len(runs) :
            runs[n].Style = "foliage" =>
                \A i \in 1..4 :
                    /\ (FunctionsAt(Levels[i]) > 0 => runs[n].Foliage[i] >= 1)
                    /\ (FunctionsAt(Levels[i]) = 0 => runs[n].Foliage[i] = 0)

C17_Witness ==
    /\ Len(functions) = 11
    /\ FunctionsAt("low") = 8
    /\ FunctionsAt("medium") = 1
    /\ FunctionsAt("high") = 1
    /\ FunctionsAt("critical") = 1
    /\ Len(runs) >= 1
    /\ runs[1].Style = "foliage"
    /\ \A i \in 2..4 : runs[1].Foliage[i] = 65

(* C18: within every FileGroup of the built tree the Function children    *)
(* appear in the same relative order as their records in the input list    *)
(* (a function's Name is its position in the input list).                  *)
C18_InputOrderWithinGroup ==
    Built =>
        \A i \in 1..Len(tree.Children) :
            \A j, k \in 1..Len(tree.Children[i].Children) :
                j < k => tree.Children[i].Children[j].Name <
                             tree.Children[i].Children[k].Name

C18_Witness ==
    /\ Built
    /\ Len(functions) = 3
    /\ Base(functions[1].File) = "x.go"
    /\ Base(functions[2].File) = "."
    /\ Base(functions[3].File) = "x.go"
    /\ \E i \in 1..Len(tree.Children) :
          /\ tree.Children[i].Name = "x.go"
          /\ Len(tree.Children[i].Children) = 2
          /\ tree.Children[i].Children[1].Name = 1
          /\ tree.Children[i].Children[2].Name = 3

(* the places <<i, j>> of the tree where the node of record k stands *)
NodesOf(k) ==
    {p \in {<<i, j>> : i \in 1..Len(tree.Children), j \in 1..MaxFuncs + 1} :
        /\ p[2] <= Len(tree.Children[p[1]].Children)
        /\ tree.Children[p[1]].Children[p[2]].Name = k}

(* C19: for every input record there is exactly one Function node; it has *)
(* no children, carries the record's own complexity, and its Level is the  *)
(* classifier's level of that own complexity.                              *)
C19_OneFunctionNodePerRecord ==
    Built =>
        /\ ChildCountSum(tree.Children) = Len(functions)
        /\ \A k \in 1..Len(functions) :
              /\ Cardinality(NodesOf(k)) = 1
              /\ \A p \in NodesOf(k) :
                    LET node == tree.Children[p[1]].Children[p[2]] IN
                    /\ node.NodeType = "function"
                    /\ node.Children = <<>>
                    /\ node.Complexity = functions[k].Complexity
                    /\ BucketRule(thresholds, functions[k].Complexity,
                                  node.Level)

C19_Witness ==
    /\ Built
    /\ thresholds = <<1, 2, 3>>
    /\ \E i \in 1..Len(tree.Children) :
          /\ Len(tree.Children[i].Children) = 2
          /\ tree.Children[i].Level = "medium"
          /\ tree.Children[i].Children[1].Complexity = 0
          /\ tree.Children[i].Children[1].Level = "low"
          /\ tree.Children[i].Children[2].Complexity = 3
          /\ tree.Children[i].Children[2].Level = "critical"

ColorOfLevel(l) ==
    IF l = "low" THEN "green"
    ELSE IF l = "medium" THEN "yellow"
    ELSE IF l = "high" THEN "red"
    ELSE "brown"

LevelAndColorPaired(node) ==
    /\ node.Level \in {"low", "medium", "high", "critical"}
    /\ node.Color = ColorOfLevel(node.Level)

(* GetComplexityColor over every threshold triple and complexity in range *)
GrayNeverProduced ==
    \A t \in LevelThresholdSets :
        \A c \in (0 - MaxLevelComplexity)..MaxLevelComplexity :
            GetComplexityColor(t, c) # "gray"

(* C20: every node of a built tree has one of the four levels and the one *)
(* colour of that level, and GetComplexityColor never gives the fallback   *)
(* colour gray, whatever the complexity and the thresholds.                *)
C20_LevelColorPairs ==
    Built =>
        /\ LevelAndColorPaired(tree)
        /\ \A i \in 1..Len(tree.Children) :
              /\ LevelAndColorPaired(tree.Children[i])
              /\ \A j \in 1..Len(tree.Children[i].Children) :
                    LevelAndColorPaired(tree.Children[i].Children[j])
        /\ GrayNeverProduced

C20_Witness ==
    /\ Built
    /\ \E i \in 1..Len(tree.Children) :
          /\ tree.Children[i].Level = "high"
          /\ tree.Children[i].Color = "red"
          /\ Len(tree.Children[i].Children) = 2
          /\ tree.Children[i].Children[1].Color = "yellow"
          /\ tree.Children[i].Children[2].Color = "brown"

(* the angular gap in [0, 360) from leaf i to the next leaf around the tip *)
GapToNext(leaves, i) ==
    AngleMod360(RatSub(leaves[(i % Len(leaves)) + 1][2], leaves[i][2]))

(* C21: drawLeavesCluster puts a single leaf exactly on the branch tip;   *)
(* 2 or 3 leaves are all at distance 15 from the tip with equal angular    *)
(* gaps between neighbouring leaves around the tip (180 degrees for 2      *)
(* leaves, 120 degrees for 3).                                             *)
C21_SmallClusterEvenSpread ==
    (layout.Style = "cluster" /\ layout.Functions \in 1..3) =>
        /\ (layout.Functions = 1 => layout.Leaves[1][1] = 0)
        /\ (layout.Functions > 1 =>
               \A i \in 1..Len(layout.Leaves) :
                   /\ layout.Leaves[i][1] = 15
                   /\ GapToNext(layout.Leaves, i) =
                          Rat(360, layout.Functions))

(* a < b for two fractions over the same denominator *)
LessSameDen(a, b) == a[2] = b[2] /\ a[1] < b[1]

(* the styles that draw one branch per FileGroup *)
BranchStyles == {"branching", "subdirectory"}

(* the first branch drawn on the side of branch k (1 left, 2 right) *)
SideFirst(k) == 2 - (k % 2)

(* C22: for every number of FileGroups up to 50, every even-index branch  *)
(* ends to the left of and above its start point on the trunk, every       *)
(* odd-index branch ends to the right of and above its start point, on     *)
(* each side the angular offset from that side's first branch grows with   *)
(* the branch index, and no two branches point in the same direction.      *)
C22_BranchesAlternateUpward ==
    (layout.Style \in BranchStyles /\ layout.Index >= 0) =>
        LET start == layout.Endpoints[1]
            end == layout.Endpoints[2]
            angles == layout.Angles IN
        /\ LessSameDen(end[2], start[2])
        /\ (layout.Index % 2 = 0 => LessSameDen(end[1], start[1]))
        /\ (layout.Index % 2 = 1 => LessSameDen(start[1], end[1]))
        /\ \A k \in 1..Len(angles) :
              k + 2 <= Len(angles) =>
                  Abs(angles[k + 2] - angles[SideFirst(k)]) >
                      Abs(angles[k] - angles[SideFirst(k)])
        /\ \A j, k \in 1..Len(angles) :
              j # k => angles[j] % 360 # angles[k] % 360

(* the styles that draw the tree as trunk, branches and leaves *)
OrganicStyles == {"natural", "branching"}

(* the leaves of a run drawn for the Function node named name *)
LeavesNamed(run, name) ==
    {k \in 1..Len(run.Leaves) : run.Leaves[k].Name = name}

GridBands(l) ==
    /\ l.Origin[2] = <<80, 1>>
    /\ Len(l.Anchors) = 1 + l.Functions
    /\ l.Anchors[1][2] = <<200, 1>>
    /\ \A j \in 2..Len(l.Anchors) : l.Anchors[j][2] = <<300, 1>>

(* every function node is `step` to the right of the one before it *)
SpacedBy(l, step) ==
    /\ step[1] > 0
    /\ \A j \in 2..(Len(l.Anchors) - 1) :
          RatSub(l.Anchors[j + 1][1], l.Anchors[j][1]) = step

FunctionsEvenlySpaced(l) ==
    Len(l.Anchors) >= 3 =>
        SpacedBy(l, RatSub(l.Anchors[3][1], l.Anchors[2][1]))

(* line k joins the point `from` (the parent) to the point `to` (a child) *)
Joins(l, k, from, to) ==
    /\ l.Endpoints[2 * k - 1][1] = from[1]
    /\ l.Endpoints[2 * k][1] = to[1]
    /\ RatLeq(from[2], l.Endpoints[2 * k - 1][2])
    /\ RatLess(l.Endpoints[2 * k - 1][2], l.Endpoints[2 * k][2])
    /\ RatLeq(l.Endpoints[2 * k][2], to[2])

OneLinePerNode(l) ==
    /\ Len(l.Endpoints) = 2 * (1 + l.Functions)
    /\ Joins(l, 1, l.Origin, l.Anchors[1])
    /\ \A j \in 1..l.Functions :
          Joins(l, j + 1, l.Anchors[1], l.Anchors[j + 1])

(* C25: in the grid style the Root is at y = 80, every FileGroup at       *)
(* y = 200 and every Function at y = 300; consecutive FileGroups are       *)
(* (Width-100)/K apart, the Functions of one FileGroup are evenly spaced,  *)
(* and exactly one straight connection line is drawn from every non-root   *)
(* node to its parent.                                                     *)
C25_GridBandsAndSpacing ==
    [][(layout'.Style = "hierarchical" /\ layout'.Index >= 0) =>
          /\ GridBands(layout')
          /\ FunctionsEvenlySpaced(layout')
          /\ OneLinePerNode(layout')
          /\ (layout.Index >= 0 =>
                 RatSub(layout'.Anchors[1][1], layout.Anchors[1][1]) =
                     Rat(Width - 100, layout.Groups))]_vars

C25_Witness ==
    /\ layout.Style = "hierarchical"
    /\ layout.Groups = 3
    /\ layout.Functions = 2
    /\ layout.Index = 1
    /\ layout.Anchors = <<<<<<400, 1>>, <<200, 1>>>>,
                          <<<<360, 1>>, <<300, 1>>>>,
                          <<<<440, 1>>, <<300, 1>>>>>>
    /\ Len(layout.Endpoints) = 6

(* C26: if analyzing any file fails, the analyzer returns an error        *)
(* together with no usable record list (no partial results from the files  *)
(* analyzed before the failure), and the top-level run then builds no tree *)
(* and writes no output file.                                              *)
C26_FailureReturnsNothing ==
    pc \in {"failed", "failed_top"} =>
        /\ functions = <<>>
        /\ tree = NoTree
        /\ runs = <<>>

(* the fields of a node other than its children *)
SameFields(a, b) ==
    /\ a.Name = b.Name
    /\ a.NodeType = b.NodeType
    /\ a.Complexity = b.Complexity
    /\ a.Level = b.Level
    /\ a.Color = b.Color
    /\ a.Parent = b.Parent

(* two trees with the same nodes in the same order, field by field *)
SameNodes(a, b) ==
    /\ SameFields(a, b)
    /\ Len(a.Children) = Len(b.Children)
    /\ \A i \in 1..Len(a.Children) :
          /\ SameFields(a.Children[i], b.Children[i])
          /\ Len(a.Children[i].Children) = Len(b.Children[i].Children)
          /\ \A j \in 1..Len(a.Children[i].Children) :
                /\ SameFields(a.Children[i].Children[j],
                              b.Children[i].Children[j])
                /\ b.Children[i].Children[j].Children = <<>>

C28_FloorSurvivesNormalization ==
    \A n \in 1..Len(runs) :
        runs[n].Style = "foliage" =>
            \A i \in 1..4 :
                FunctionsAt(Levels[i]) > 0 =>
                    RatLeq(Tenth, runs[n].ColorRatio[i])

(* every function node of the group lies strictly between left and right *)
StrictlyBetween(l, left, right) ==
    \A j \in 2..Len(l.Anchors) :
        /\ RatSub(l.Anchors[j][1], left)[1] > 0
        /\ RatSub(right, l.Anchors[j][1])[1] > 0

(* the slot of width (Width-100)/K centred on the file node of the group *)
SlotLeft(l) ==
    RatSub(l.Anchors[1][1], RatDiv(Rat(Width - 100, l.Groups), <<2, 1>>))

SlotRight(l) ==
    RatAdd(l.Anchors[1][1], RatDiv(Rat(Width - 100, l.Groups), <<2, 1>>))

(* C29: in the grid style, for every K >= 1 FileGroups, the x positions   *)
(* of a FileGroup's Function nodes all lie strictly inside that group's    *)
(* own horizontal slot of width (Width-100)/K centred on the FileGroup;    *)
(* slot i spans 50 + i*(Width-100)/K to 50 + (i+1)*(Width-100)/K, so the   *)
(* Function nodes of two FileGroups never share an x and never interleave. *)
C29_FunctionsInsideOwnSlot ==
    (layout.Style = "hierarchical" /\ layout.Index >= 0) =>
        /\ SlotLeft(layout) =
               RatAdd(<<50, 1>>, Rat((Width - 100) * layout.Index,
                                     layout.Groups))
        /\ StrictlyBetween(layout, SlotLeft(layout), SlotRight(layout))

C29_Witness ==
    /\ layout.Style = "hierarchical"
    /\ layout.Groups = 2
    /\ layout.Functions = 5
    /\ layout.Index = 0
    /\ layout.Anchors[2][1] = <<85, 1>>
    /\ layout.Anchors[6][1] = <<365, 1>>

ChildRanks(node) ==
    {LevelRank(node.Children[j].Level) : j \in 1..Len(node.Children)}

(* GetComplexityLevel never gives a lower level to a higher complexity,   *)
(* for every threshold triple, ascending or not                            *)
LevelNeverDecreases ==
    \A t \in LevelThresholdSets :
        \A c \in 0..(MaxLevelComplexity - 1) :
            LevelRank(GetComplexityLevel(t, c)) <=
                LevelRank(GetComplexityLevel(t, c + 1))

(* C30: for every FileGroup built from records with complexity >= 1, its  *)
(* severity level is no lower than the lowest and no higher than the       *)
(* highest severity level among its own Function children.                 *)
C30_GroupLevelWithinChildren ==
    Built =>
        /\ \A i \in 1..Len(tree.Children) :
              LET node == tree.Children[i] IN
              (\A j \in 1..Len(node.Children) :
                   node.Children[j].Complexity >= 1) =>
                  /\ \E lo \in ChildRanks(node) : lo <= LevelRank(node.Level)
                  /\ \E hi \in ChildRanks(node) : LevelRank(node.Level) <= hi
        /\ LevelNeverDecreases

C30_Witness ==
    /\ Built
    /\ \E i \in 1..Len(tree.Children) :
          /\ Len(tree.Children[i].Children) = 2
          /\ tree.Children[i].Children[1].Complexity = 1
          /\ tree.Children[i].Children[1].Level = "medium"
          /\ tree.Children[i].Children[2].Complexity = 3
          /\ tree.Children[i].Children[2].Level = "critical"
          /\ tree.Children[i].Level = "high"

====
